---- MODULE Spec2Model ----
(***************************************************************************)
(* State-machine model of the smart-cv-scan front end:                     *)
(*   - CVAnalysisForm (src/src/components/CVAnalysisForm.tsx): the form    *)
(*     state, validateForm, handleSubmit, handleFileChange, resetForm and  *)
(*     the render conditions that decide which handlers are reachable;     *)
(*   - Index (src/src/components/ThemeToggle.tsx, second half): isFormOpen *)
(*     and the onClose callback given to the form;                         *)
(*   - ThemeToggle (src/src/components/ThemeToggle.tsx, first half).       *)
(* Strings are sequences of one-character strings, so that trim(), length  *)
(* and the e-mail regular expression are computed, not assumed.            *)
(***************************************************************************)
EXTENDS Integers, Sequences, FiniteSets, TLC

VARIABLES
    formData,          \* useState {name, email, jobDescription, cv}
    errors,            \* useState errors map
    isSubmitting,      \* useState
    analysisComplete,  \* useState
    showCelebration,   \* useState
    isFormOpen,        \* Index: useState(false), passed as isOpen
    inFlight,          \* fetch() calls whose promise has not settled
    timers,            \* setTimeout callbacks not yet run
    lastToast,         \* title of the last toast() call
    pickerFile,        \* DOM: files[0] of the <input type="file"> of the form
    theme,             \* ThemeToggle: useState
    storedTheme,       \* localStorage key 'theme'
    darkClass,         \* 'dark' in document.documentElement.classList
    mounted,           \* the page has rendered and run its mount effects
    submitTriggers,    \* history: number of handleSubmit invocations
    validSubmits,      \* history: invocations whose validateForm returned true
    posts,             \* history: number of fetch(POST) calls
    attemptPosts,      \* history: fetch(POST) calls since the last submit trigger
    lastResponse       \* history: HTTP status of the request settled since the
                       \* last submit trigger (NoResponse: none, NetworkFault)

vars == <<formData, errors, isSubmitting, analysisComplete, showCelebration,
          isFormOpen, inFlight, timers, lastToast, pickerFile, theme, storedTheme,
          darkClass, mounted, submitTriggers, validSubmits, posts,
          attemptPosts, lastResponse>>

formVars == <<formData, errors, isSubmitting, analysisComplete, showCelebration>>
netVars == <<inFlight, timers, lastToast>>
themeVars == <<theme, storedTheme, darkClass>>
histVars == <<submitTriggers, validSubmits, posts, attemptPosts, lastResponse>>

----------------------------------------------------------------------------
(* Bounds *)

MaxSubmits == 2            \* submit triggers explored per behaviour
TickMs == 1500             \* granularity of the passage of time
MaxEmailLen == 6           \* e-mail strings enumerated for the validator
MaxJobDescriptionLen == 11 \* job descriptions enumerated for the validator

----------------------------------------------------------------------------
(* Strings *)

\* JS WhiteSpace/LineTerminator as used by String.prototype.trim and \s
WhiteSpace == {" ", "\t", "\n"}

RECURSIVE TrimStart(_)
TrimStart(s) ==
    IF s = <<>> THEN <<>>
    ELSE IF Head(s) \in WhiteSpace THEN TrimStart(Tail(s)) ELSE s

RECURSIVE TrimEnd(_)
TrimEnd(s) ==
    IF s = <<>> THEN <<>>
    ELSE IF s[Len(s)] \in WhiteSpace THEN TrimEnd(SubSeq(s, 1, Len(s) - 1)) ELSE s

\* String.prototype.trim
Trim(s) == TrimEnd(TrimStart(s))

\* all strings over alphabet of length at most n
RECURSIVE StringsUpTo(_, _)
StringsUpTo(alphabet, n) ==
    IF n = 0 THEN {<<>>}
    ELSE LET shorter == StringsUpTo(alphabet, n - 1)
         IN  shorter \cup {Append(s, c) : s \in {t \in shorter : Len(t) = n - 1}, c \in alphabet}

----------------------------------------------------------------------------
(* The e-mail pattern /^[^\s@]+@[^\s@]+\.[^\s@]+$/ as a position automaton. *)
(* 0: start, 1: in local part, 2: after "@", 3: in domain, 4: after the    *)
(* literal ".", 5: in the last part (accepting).                            *)

NonSpaceNonAt(c) == c \notin WhiteSpace /\ c # "@"

EmailRegexStep(q, c) ==
    CASE q = 0 -> IF NonSpaceNonAt(c) THEN {1} ELSE {}
      [] q = 1 -> (IF NonSpaceNonAt(c) THEN {1} ELSE {}) \cup (IF c = "@" THEN {2} ELSE {})
      [] q = 2 -> IF NonSpaceNonAt(c) THEN {3} ELSE {}
      [] q = 3 -> (IF NonSpaceNonAt(c) THEN {3} ELSE {}) \cup (IF c = "." THEN {4} ELSE {})
      [] q = 4 -> IF NonSpaceNonAt(c) THEN {5} ELSE {}
      [] q = 5 -> IF NonSpaceNonAt(c) THEN {5} ELSE {}

RECURSIVE EmailRegexRun(_, _)
EmailRegexRun(qs, s) ==
    IF s = <<>> THEN qs
    ELSE EmailRegexRun(UNION {EmailRegexStep(q, Head(s)) : q \in qs}, Tail(s))

\* mutant: the pattern without its "\.[^\s@]+" part
EmailRegexTest_NoDot(s) == EmailRegexRun({0}, s) \cap {3, 5} # {}

\* RegExp.prototype.test on the whole (untrimmed) value
EmailRegexTest(s) == 5 \in EmailRegexRun({0}, s)

----------------------------------------------------------------------------
(* Form values *)

Fields == {"name", "email", "jobDescription", "cv"}

Undefined == "<undefined>"   \* a key the errors object does not have

NoErrors == [f \in Fields |-> Undefined]

\* Object.keys(errors)
Keys(e) == {f \in Fields : e[f] # Undefined}

PdfType == "application/pdf"

\* formData.cv === null
NoFile == [name |-> "", type |-> "<null>"]

EmptyForm == [name |-> <<>>, email |-> <<>>, jobDescription |-> <<>>, cv |-> NoFile]

MinJobDescriptionLength == 10

NameError(fd) ==
    IF Trim(fd.name) = <<>> THEN "Name is required" ELSE Undefined

EmailError(fd) ==
    IF Trim(fd.email) = <<>> THEN "Email is required"
    ELSE IF ~EmailRegexTest(fd.email) THEN "Please enter a valid email address"
    ELSE Undefined

JobDescriptionError(fd) ==
    IF Trim(fd.jobDescription) = <<>> THEN "Job description is required"
    ELSE IF Len(fd.jobDescription) < MinJobDescriptionLength
         THEN "Job description must be at least 10 characters"
    ELSE Undefined

CvError(fd) ==
    IF fd.cv = NoFile THEN "CV file is required"
    ELSE IF fd.cv.type # PdfType THEN "Only PDF files are allowed"
    ELSE Undefined

\* newErrors as built by validateForm
ValidateForm(fd) ==
    [f \in Fields |->
        CASE f = "name" -> NameError(fd)
          [] f = "email" -> EmailError(fd)
          [] f = "jobDescription" -> JobDescriptionError(fd)
          [] f = "cv" -> CvError(fd)]

\* mutant: the result of the validation is ignored
IsValid_Always(newErrors) == TRUE

\* validateForm's return value
IsValid(newErrors) == Keys(newErrors) = {}

----------------------------------------------------------------------------
(* Inputs of the user and of the network *)

NameInputs == {<<>>, <<" ">>, <<"A", "l">>}

EmailInputs == {<<>>, <<"a", "@", "b">>, <<"a", "@", "b", ".", "c">>}

JobDescriptionInputs ==
    {<<>>,
     <<"d", "e", "v">>,
     <<"d", "e", "v", " ", " ", " ", " ", " ", " ", " ">>,
     <<"d", "e", "v", "e", "l", "o", "p", "e", "r", "s">>}

\* e.target.files[0]: a File with its name and declared MIME type
FileInputs ==
    {[name |-> "cv.pdf", type |-> PdfType],
     [name |-> "cv.png", type |-> "image/png"],
     [name |-> "cv.PDF", type |-> "application/x-pdf"]}

\* HTTP status codes the endpoint may answer with
Statuses == {200, 204, 404, 500}

\* mutant: every status from 200 on counts as success
ResponseOk_From200(status) == status >= 200

\* Response.ok
ResponseOk(status) == status >= 200 /\ status <= 299

\* localStorage.getItem('theme') === null
NoValue == "<null>"

InitialThemes == {NoValue, "", "light", "dark", "blue"}

CompletionDelayMs == 3000

ErrorToast == "Error"
CompleteToast == "Analysis Complete!"
NoToast == "<none>"

NoResponse == -1
NetworkFault == 0

Min(a, b) == IF a <= b THEN a ELSE b

----------------------------------------------------------------------------
(* Render conditions of CVAnalysisForm: which controls exist *)

\* the celebration view with its "Submit Another CV" button
CelebrationRendered == isFormOpen /\ analysisComplete /\ showCelebration

\* mutant: the form stays rendered while a submission is pending
FormRendered_WhileSubmitting ==
    isFormOpen /\ ~(analysisComplete /\ showCelebration)

\* the <form> with its inputs and submit button (third branch of the ternary)
FormRendered ==
    isFormOpen /\ ~(analysisComplete /\ showCelebration) /\ ~isSubmitting

\* the <p> under the file input shows "Only PDF files are allowed"
CvMessageDisplayed ==
    FormRendered /\ errors["cv"] = "Only PDF files are allowed"

\* the X button
CloseButtonRendered == isFormOpen /\ ~isSubmitting /\ ~analysisComplete

\* mutant: the backdrop keeps its onClick handler while submitting
BackdropClickable_Always == isFormOpen

\* the backdrop has an onClick handler
BackdropClickable == isFormOpen /\ ~isSubmitting

----------------------------------------------------------------------------
(* Initial state: the page before its first render *)

Init ==
    /\ formData = EmptyForm
    /\ errors = NoErrors
    /\ isSubmitting = FALSE
    /\ analysisComplete = FALSE
    /\ showCelebration = FALSE
    /\ isFormOpen = FALSE
    /\ inFlight = {}
    /\ timers = {}
    /\ lastToast = NoToast
    /\ pickerFile = NoFile
    /\ theme = NoValue
    /\ storedTheme \in InitialThemes
    /\ darkClass = FALSE
    /\ mounted = FALSE
    /\ submitTriggers = 0
    /\ validSubmits = 0
    /\ posts = 0
    /\ attemptPosts = 0
    /\ lastResponse = NoResponse

----------------------------------------------------------------------------
(* ThemeToggle *)

\* the useEffect body for theme value t
ThemeEffect(t) ==
    /\ storedTheme' = t
    /\ darkClass' = (t = "dark")

\* lazy useState initialiser: localStorage.getItem('theme') || 'light'
InitialTheme(stored) ==
    IF stored = NoValue \/ stored = "" THEN "light" ELSE stored

\* first render of the page: state initialisers, then the mount effect
Mount ==
    /\ ~mounted
    /\ mounted' = TRUE
    /\ theme' = InitialTheme(storedTheme)
    /\ ThemeEffect(theme')
    /\ UNCHANGED <<formVars, isFormOpen, netVars, pickerFile, histVars>>

\* toggleTheme, the re-render and the effect it schedules
ToggleTheme ==
    /\ mounted
    /\ theme' = (IF theme = "light" THEN "dark" ELSE "light")
    /\ ThemeEffect(theme')
    /\ UNCHANGED <<formVars, isFormOpen, netVars, pickerFile, histVars, mounted>>

\* what the toggle button shows
DisplayedTheme == IF theme = "light" THEN "light" ELSE "dark"

----------------------------------------------------------------------------
(* Index *)

\* handleStartAnalysis
OpenForm ==
    /\ mounted
    /\ ~isFormOpen
    /\ isFormOpen' = TRUE
    /\ UNCHANGED <<formVars, netVars, pickerFile, themeVars, histVars, mounted>>

\* onClose={() => setIsFormOpen(false)}: the form returns null and its
\* <input type="file"> leaves the document
OnClose ==
    /\ isFormOpen' = FALSE
    /\ pickerFile' = NoFile

----------------------------------------------------------------------------
(* CVAnalysisForm: field edits *)

EditName(v) ==
    /\ mounted /\ FormRendered
    /\ v # formData.name
    /\ formData' = [formData EXCEPT !.name = v]
    /\ UNCHANGED <<errors, isSubmitting, analysisComplete, showCelebration,
                   isFormOpen, netVars, pickerFile, themeVars, histVars, mounted>>

EditEmail(v) ==
    /\ mounted /\ FormRendered
    /\ v # formData.email
    /\ formData' = [formData EXCEPT !.email = v]
    /\ UNCHANGED <<errors, isSubmitting, analysisComplete, showCelebration,
                   isFormOpen, netVars, pickerFile, themeVars, histVars, mounted>>

EditJobDescription(v) ==
    /\ mounted /\ FormRendered
    /\ v # formData.jobDescription
    /\ formData' = [formData EXCEPT !.jobDescription = v]
    /\ UNCHANGED <<errors, isSubmitting, analysisComplete, showCelebration,
                   isFormOpen, netVars, pickerFile, themeVars, histVars, mounted>>

\* mutant: a rejected selection also drops the file accepted before
HandleFileChange_RejectClears(file) ==
    /\ mounted /\ FormRendered
    /\ file # pickerFile
    /\ pickerFile' = file
    /\ IF file.type = PdfType
       THEN /\ formData' = [formData EXCEPT !.cv = file]
            /\ errors' = [errors EXCEPT !["cv"] = ""]
       ELSE /\ formData' = [formData EXCEPT !.cv = NoFile]
            /\ errors' = [errors EXCEPT !["cv"] = "Only PDF files are allowed"]
    /\ UNCHANGED <<isSubmitting, analysisComplete, showCelebration,
                   isFormOpen, netVars, themeVars, histVars, mounted>>

\* mutant: the selected file is stored whatever its type
HandleFileChange_NoTypeCheck(file) ==
    /\ mounted /\ FormRendered
    /\ file # pickerFile
    /\ pickerFile' = file
    /\ formData' = [formData EXCEPT !.cv = file]
    /\ errors' = [errors EXCEPT !["cv"] = ""]
    /\ UNCHANGED <<isSubmitting, analysisComplete, showCelebration,
                   isFormOpen, netVars, themeVars, histVars, mounted>>

\* handleFileChange with e.target.files[0] = file (the change event fires
\* only when the selection of the input changes)
HandleFileChange(file) ==
    /\ mounted /\ FormRendered
    /\ file # pickerFile
    /\ pickerFile' = file
    /\ IF file.type = PdfType
       THEN /\ formData' = [formData EXCEPT !.cv = file]
            /\ errors' = [errors EXCEPT !["cv"] = ""]
       ELSE /\ errors' = [errors EXCEPT !["cv"] = "Only PDF files are allowed"]
            /\ UNCHANGED formData
    /\ UNCHANGED <<isSubmitting, analysisComplete, showCelebration,
                   isFormOpen, netVars, themeVars, histVars, mounted>>

\* handleFileChange with e.target.files empty (the selection was cancelled):
\* `if (file)` is false and no state is set
HandleFileCleared ==
    /\ mounted /\ FormRendered
    /\ pickerFile # NoFile
    /\ pickerFile' = NoFile
    /\ UNCHANGED <<formVars, isFormOpen, netVars, themeVars, histVars, mounted>>

----------------------------------------------------------------------------
(* CVAnalysisForm: submission *)

\* the multipart body built from formData ('Job Description' is the third key)
Payload(fd) ==
    [Name |-> fd.name, Email |-> fd.email, JobDescription |-> fd.jobDescription,
     CV |-> fd.cv]

\* fetch(url, {method: 'POST', body}): the request is issued, the promise pends
Fetch(body) ==
    /\ inFlight' = inFlight \cup {[id |-> posts + 1, body |-> body]}
    /\ posts' = posts + 1

\* handleSubmit up to its await: validateForm, setIsSubmitting, fetch
HandleSubmit ==
    /\ mounted /\ FormRendered
    /\ submitTriggers < MaxSubmits
    /\ submitTriggers' = submitTriggers + 1
    /\ LET newErrors == ValidateForm(formData)
       IN  /\ errors' = newErrors
           /\ IF IsValid(newErrors)
              THEN /\ isSubmitting' = TRUE
                   /\ pickerFile' = NoFile
                   /\ Fetch(Payload(formData))
                   /\ validSubmits' = validSubmits + 1
                   /\ attemptPosts' = 1
              ELSE /\ UNCHANGED <<isSubmitting, inFlight, posts, validSubmits,
                                  pickerFile>>
                   /\ attemptPosts' = 0
    /\ lastResponse' = NoResponse
    /\ UNCHANGED <<formData, analysisComplete, showCelebration, isFormOpen,
                   timers, lastToast, themeVars, mounted>>

\* mutant: the catch branch does not leave the submitting state
CatchBranch_StaysSubmitting ==
    /\ lastToast' = ErrorToast
    /\ UNCHANGED <<formData, errors, isSubmitting, analysisComplete,
                   showCelebration, timers>>

\* the catch branch: console.error, toast, setIsSubmitting(false)
CatchBranch ==
    /\ lastToast' = ErrorToast
    /\ isSubmitting' = FALSE
    /\ UNCHANGED <<formData, errors, analysisComplete, showCelebration, timers>>

\* the promise of request r resolves with an HTTP status
FetchResolve(r, status) ==
    /\ r \in inFlight
    /\ inFlight' = inFlight \ {r}
    /\ IF ResponseOk(status)
       THEN /\ timers' = timers \cup
                  {[id |-> r.id, remaining |-> CompletionDelayMs, elapsed |-> 0]}
            /\ lastResponse' = status
            /\ UNCHANGED <<formVars, lastToast>>
       ELSE /\ CatchBranch
            /\ lastResponse' = status
    /\ UNCHANGED <<isFormOpen, pickerFile, themeVars, mounted, submitTriggers,
                   validSubmits, posts, attemptPosts>>

\* mutant: a rejected request is sent again without a submit trigger
FetchReject_Retry(r) ==
    /\ r \in inFlight
    /\ inFlight' = (inFlight \ {r}) \cup {[id |-> posts + 1, body |-> r.body]}
    /\ posts' = posts + 1
    /\ lastToast' = ErrorToast
    /\ lastResponse' = NetworkFault
    /\ UNCHANGED <<formVars, timers, isFormOpen, pickerFile, themeVars, mounted,
                   submitTriggers, validSubmits, attemptPosts>>

\* the promise of request r rejects (network fault)
FetchReject(r) ==
    /\ r \in inFlight
    /\ inFlight' = inFlight \ {r}
    /\ CatchBranch
    /\ lastResponse' = NetworkFault
    /\ UNCHANGED <<isFormOpen, pickerFile, themeVars, mounted, submitTriggers,
                   validSubmits, posts, attemptPosts>>

\* time passes while a timeout is pending, never beyond the next deadline
Tick ==
    /\ timers # {}
    /\ \A t \in timers : t.remaining > 0
    /\ LET next == CHOOSE m \in {t.remaining : t \in timers} :
                        \A t \in timers : m <= t.remaining
           d == Min(TickMs, next)
       IN  timers' = {[t EXCEPT !.remaining = @ - d, !.elapsed = @ + d] : t \in timers}
    /\ UNCHANGED <<formVars, isFormOpen, inFlight, lastToast, pickerFile,
                   themeVars, mounted, histVars>>

\* the setTimeout callback of timer t runs
TimerFire(t) ==
    /\ t \in timers
    /\ t.remaining = 0
    /\ timers' = timers \ {t}
    /\ analysisComplete' = TRUE
    /\ showCelebration' = TRUE
    /\ lastToast' = CompleteToast
    /\ UNCHANGED <<formData, errors, isSubmitting, isFormOpen, inFlight,
                   pickerFile, themeVars, mounted, histVars>>

----------------------------------------------------------------------------
(* CVAnalysisForm: leaving the modal *)

\* mutant: resetForm without setIsSubmitting(false)
ResetForm_KeepsSubmitting ==
    /\ mounted /\ CelebrationRendered
    /\ formData' = EmptyForm
    /\ errors' = NoErrors
    /\ analysisComplete' = FALSE
    /\ showCelebration' = FALSE
    /\ OnClose
    /\ UNCHANGED <<isSubmitting, netVars, themeVars, histVars, mounted>>

\* resetForm, bound to "Submit Another CV"
ResetForm ==
    /\ mounted /\ CelebrationRendered
    /\ formData' = EmptyForm
    /\ errors' = NoErrors
    /\ isSubmitting' = FALSE
    /\ analysisComplete' = FALSE
    /\ showCelebration' = FALSE
    /\ OnClose
    /\ UNCHANGED <<netVars, themeVars, histVars, mounted>>

\* the X button: onClick={onClose}
CloseButton ==
    /\ mounted /\ CloseButtonRendered
    /\ OnClose
    /\ UNCHANGED <<formVars, netVars, themeVars, histVars, mounted>>

\* click on the backdrop: onClick={!isSubmitting ? onClose : undefined}
BackdropClick ==
    /\ mounted /\ BackdropClickable
    /\ OnClose
    /\ UNCHANGED <<formVars, netVars, themeVars, histVars, mounted>>

----------------------------------------------------------------------------

Next ==
    \/ Mount
    \/ ToggleTheme
    \/ OpenForm
    \/ \E v \in NameInputs : EditName(v)
    \/ \E v \in EmailInputs : EditEmail(v)
    \/ \E v \in JobDescriptionInputs : EditJobDescription(v)
    \/ \E file \in FileInputs : HandleFileChange(file)
    \/ HandleFileCleared
    \/ HandleSubmit
    \/ \E r \in inFlight, status \in Statuses : FetchResolve(r, status)
    \/ \E r \in inFlight : FetchReject(r)
    \/ Tick
    \/ \E t \in timers : TimerFire(t)
    \/ ResetForm
    \/ CloseButton
    \/ BackdropClick

Spec == Init /\ [][Next]_vars

----------------------------------------------------------------------------
(* The validator on exhaustively enumerated values: the form is open with  *)
(* a valid name and an accepted PDF, one of e-mail and job description     *)
(* ranges over every string up to its bound, and the user submits.         *)

EmailAlphabet == {"a", "@", ".", " "}

JobDescriptionAlphabet == {"x", " "}

ValidName == <<"A", "l">>
ValidEmail == <<"a", "@", "b", ".", "c">>
ValidJobDescription == <<"d", "e", "v", "e", "l", "o", "p", "e", "r", "s">>
ValidCv == [name |-> "cv.pdf", type |-> PdfType]

InitValidator ==
    /\ \/ /\ formData \in [name : {ValidName},
                           email : StringsUpTo(EmailAlphabet, MaxEmailLen),
                           jobDescription : {ValidJobDescription},
                           cv : {ValidCv}]
       \/ /\ formData \in [name : {ValidName},
                           email : {ValidEmail},
                           jobDescription : StringsUpTo(JobDescriptionAlphabet,
                                                        MaxJobDescriptionLen),
                           cv : {ValidCv}]
    /\ errors = [NoErrors EXCEPT !["cv"] = ""]
    /\ isSubmitting = FALSE
    /\ analysisComplete = FALSE
    /\ showCelebration = FALSE
    /\ isFormOpen = TRUE
    /\ inFlight = {}
    /\ timers = {}
    /\ lastToast = NoToast
    /\ pickerFile = ValidCv
    /\ theme = "light"
    /\ storedTheme = "light"
    /\ darkClass = FALSE
    /\ mounted = TRUE
    /\ submitTriggers = 0
    /\ validSubmits = 0
    /\ posts = 0
    /\ attemptPosts = 0
    /\ lastResponse = NoResponse

NextValidator == HandleSubmit

SpecValidator == InitValidator /\ [][NextValidator]_vars

----------------------------------------------------------------------------
(* Properties *)

\* s is empty or consists of white space only
Blank(s) == \A i \in 1..Len(s) : s[i] \in WhiteSpace

\* C1: the form enters Submitting and issues a POST only at a submit trigger
\* whose field values the validator accepts; a submit trigger with a blank
\* name records "Name is required", leaves the phase Idle and issues no POST.
C1_SubmitOnlyWhenValid ==
    [][ /\ ((~isSubmitting /\ isSubmitting') \/ posts' # posts)
            => /\ submitTriggers' = submitTriggers + 1
               /\ Keys(ValidateForm(formData)) = {}
               /\ Keys(errors') = {}
        /\ (submitTriggers' # submitTriggers /\ Blank(formData.name))
            => /\ errors'["name"] = "Name is required"
               /\ ~isSubmitting' /\ ~analysisComplete'
               /\ posts' = posts /\ inFlight' = inFlight ]_vars

C1_Witness ==
    /\ submitTriggers > 0
    /\ formData.name = <<" ">>
    /\ errors["name"] = "Name is required"
    /\ ~isSubmitting /\ posts = 0

\* C2: at most one POST is in flight at any time.
C2_SingleFlight == Cardinality(inFlight) <= 1

C2_Witness ==
    /\ Cardinality(inFlight) = 1
    /\ isSubmitting
    /\ submitTriggers < MaxSubmits

\* C3: every POST is issued by a submit trigger that passed validation, every
\* such trigger issues exactly one POST, and so the number of POSTs equals the
\* number of submit triggers that passed validation (no automatic retry).
C3_OnePostPerValidSubmit ==
    /\ [](posts = validSubmits)
    /\ [][ /\ posts' # posts
               => posts' = posts + 1 /\ submitTriggers' = submitTriggers + 1
           /\ (submitTriggers' # submitTriggers /\ Keys(ValidateForm(formData)) = {})
               => posts' = posts + 1 ]_vars

C3_Witness ==
    /\ lastResponse \in {NetworkFault, 404, 500}
    /\ inFlight = {}
    /\ posts = 1 /\ validSubmits = 1

\* the submission phase read off the two flags
Phase ==
    IF analysisComplete THEN "Complete"
    ELSE IF isSubmitting THEN "Submitting" ELSE "Idle"

\* C4: the phase moves Idle -> Submitting with exactly one POST, stays
\* Submitting while the request or the delay timer is pending, and becomes
\* Complete only from Submitting, when a timer set 3000 ms earlier fires after
\* a 2xx response to the single POST of the current attempt.
C4_IdleSubmittingComplete ==
    /\ []((inFlight # {} \/ timers # {}) => Phase = "Submitting")
    /\ [][ /\ (Phase = "Idle" /\ Phase' # "Idle")
               => Phase' = "Submitting" /\ posts' = posts + 1 /\ attemptPosts' = 1
           /\ Phase = "Submitting" => posts' = posts
           /\ (lastResponse' # lastResponse /\ lastResponse' \in 200..299)
               => /\ Phase' = "Submitting"
                  /\ \E t \in timers' : t.remaining = 3000 /\ t.elapsed = 0
           /\ (Phase # "Complete" /\ Phase' = "Complete")
               => /\ Phase = "Submitting"
                  /\ lastResponse \in 200..299
                  /\ attemptPosts = 1
                  /\ inFlight = {}
                  /\ \E t \in timers : t.elapsed >= 3000 ]_vars

C4_Witness ==
    /\ Phase = "Complete"
    /\ lastResponse = 200
    /\ posts = 1
    /\ lastToast = CompleteToast

\* C5: when a request ends with a non-2xx status or a network fault, the form
\* is Idle and rendered again, the failure toast is shown, and the fields hold
\* the values that were sent, which still pass validation.
C5_FailureReturnsToIdle ==
    [][ \A r \in inFlight :
          (r \notin inFlight' /\ lastResponse' \notin 200..299)
            => /\ ~isSubmitting' /\ ~analysisComplete'
               /\ FormRendered'
               /\ lastToast' = ErrorToast
               /\ formData' = formData
               /\ Payload(formData') = r.body
               /\ Keys(ValidateForm(formData')) = {} ]_vars

C5_Witness ==
    /\ lastToast = ErrorToast
    /\ posts = 2
    /\ \E r \in inFlight : r.id = 2 /\ r.body = Payload(formData)

\* C6: the stored file is absent or of type application/pdf; selecting a file
\* of another type stores nothing and sets "Only PDF files are allowed".
C6_OnlyPdfStored ==
    /\ [](formData.cv = NoFile \/ formData.cv.type = "application/pdf")
    /\ [][ (pickerFile' # pickerFile /\ pickerFile' # NoFile
              /\ pickerFile'.type # "application/pdf")
            => /\ formData' = formData
               /\ errors'["cv"] = "Only PDF files are allowed" ]_vars

C6_Witness ==
    /\ pickerFile.type = "application/x-pdf"
    /\ formData.cv.type = "application/pdf"
    /\ errors["cv"] = "Only PDF files are allowed"

\* C7 (as claimed): whenever the modal is closed, name, email and
\* jobDescription are empty and no file is selected.
C7_ClosedFormIsEmpty == ~isFormOpen => formData = EmptyForm

\* C8 (as claimed): after a submit, the jobDescription error is "required"
\* for a blank value, "at least 10 characters" for a trimmed length of 1..9,
\* and absent for a trimmed length of 10 or more.
C8_JobDescriptionByTrimmedLength ==
    submitTriggers > 0 =>
        LET n == Len(Trim(formData.jobDescription))
        IN  errors["jobDescription"] =
              (IF n = 0 THEN "Job description is required"
               ELSE IF n <= 9 THEN "Job description must be at least 10 characters"
               ELSE Undefined)

\* s = local "@" domain "." tld, each part one or more characters that are
\* neither white space nor "@"
HasEmailShape(s) ==
    \E a, d \in 1..Len(s) :
        /\ 1 < a /\ a + 1 < d /\ d < Len(s)
        /\ s[a] = "@" /\ s[d] = "."
        /\ \A k \in (1..Len(s)) \ {a} : s[k] \notin WhiteSpace /\ s[k] # "@"

\* C9: after a submit, the email error is "Email is required" for a blank
\* value, "Please enter a valid email address" for a non-blank value that is
\* not of the shape local@domain.tld, and absent for every value of that shape.
C9_EmailErrorIffNotShaped ==
    submitTriggers > 0 =>
        errors["email"] =
            (IF Blank(formData.email) THEN "Email is required"
             ELSE IF ~HasEmailShape(formData.email)
                  THEN "Please enter a valid email address"
             ELSE Undefined)

C9_Witness ==
    /\ submitTriggers > 0
    /\ formData.email = <<"a", "@", ".", ".", ".", "a">>
    /\ errors["email"] = Undefined
    /\ posts = 1

\* C10 (as claimed): once the UI has started, the stored theme is light or
\* dark, equals the displayed theme, and the dark class is set exactly when
\* it is dark.
C10_StoredThemeIsLightOrDark ==
    mounted =>
        /\ storedTheme \in {"light", "dark"}
        /\ storedTheme = DisplayedTheme
        /\ darkClass <=> (storedTheme = "dark")

\* C11 (as claimed): the Submitting flag and the Complete flag are never
\* true at the same time.
C11_FlagsExclusive == ~(isSubmitting /\ analysisComplete)

\* C12: while a submission is under way (isSubmitting, from the submit
\* trigger until the attempt fails or the result is dismissed) the modal is
\* open, in particular whenever a request is in flight or the completion
\* timer is pending, and the only step that closes it is the dismissal of
\* the result.
C12_NoCloseWhileSubmitting ==
    /\ []((inFlight # {} \/ timers # {} \/ isSubmitting) => isFormOpen)
    /\ [][ (isSubmitting /\ isFormOpen /\ ~isFormOpen')
             => /\ analysisComplete /\ showCelebration
                /\ inFlight = {} /\ timers = {}
                /\ ~isSubmitting' /\ ~analysisComplete' ]_vars

C12_Witness ==
    /\ isFormOpen /\ isSubmitting /\ ~analysisComplete
    /\ inFlight = {}
    /\ \E t \in timers : t.remaining > 0 /\ t.elapsed > 0

\* C13: a step that leaves the Complete phase starts from the celebration
\* view and ends with isSubmitting, analysisComplete and showCelebration
\* false, the four fields empty, no error recorded and the modal closed; every
\* other step taken in the Complete phase leaves the form and the modal as
\* they are.
C13_DismissReturnsToIdle ==
    [][ analysisComplete =>
          IF analysisComplete'
          THEN UNCHANGED <<formVars, isFormOpen>>
          ELSE /\ isFormOpen /\ showCelebration
               /\ ~isSubmitting' /\ ~showCelebration'
               /\ formData' = EmptyForm
               /\ Keys(errors') = {}
               /\ ~isFormOpen' ]_vars

C13_Witness ==
    /\ lastResponse \in 200..299
    /\ lastToast = CompleteToast
    /\ timers = {} /\ inFlight = {}
    /\ ~isSubmitting /\ ~analysisComplete /\ ~showCelebration
    /\ formData = EmptyForm
    /\ ~isFormOpen

\* a step in which the file picker takes a file that is not a PDF
RejectionStep ==
    /\ pickerFile' # pickerFile
    /\ pickerFile' # NoFile
    /\ pickerFile'.type # "application/pdf"

\* such a step sets the file error message and changes nothing else
RejectionFrame ==
    RejectionStep =>
        /\ errors' = [errors EXCEPT !["cv"] = "Only PDF files are allowed"]
        /\ UNCHANGED <<formData, isSubmitting, analysisComplete, showCelebration,
                       isFormOpen, inFlight, timers, lastToast>>

\* a POST carries the file held in formData, which is a PDF
PostSendsStoredFile ==
    posts' # posts =>
        /\ formData.cv.type = "application/pdf"
        /\ \E r \in inFlight' \ inFlight : r.body.CV = formData.cv

\* a step that recomputes the errors (submit) or accepts a PDF
SubmitOrPdfSelected ==
    \/ submitTriggers' # submitTriggers
    \/ pickerFile' # pickerFile /\ pickerFile'.type = "application/pdf"

\* C14 (as claimed): rejecting a non-PDF selection changes only the file error
\* message, a later POST sends the PDF accepted earlier, and the message stays
\* displayed until a submit attempt or the selection of a PDF.
C14_MessageStaysDisplayed ==
    [][ /\ RejectionFrame
        /\ PostSendsStoredFile
        /\ (CvMessageDisplayed /\ ~CvMessageDisplayed') => SubmitOrPdfSelected ]_vars

\* C14 (amended): rejecting a non-PDF selection changes only the file error
\* message, a later POST sends the PDF accepted earlier, and the message stays
\* recorded in errors.cv (shown whenever the form is rendered) until a submit
\* attempt or the selection of a PDF.
C14_RejectionChangesOnlyMessage ==
    [][ /\ RejectionFrame
        /\ PostSendsStoredFile
        /\ (errors["cv"] = "Only PDF files are allowed"
              /\ errors'["cv"] # "Only PDF files are allowed")
            => SubmitOrPdfSelected ]_vars

C14_Witness ==
    /\ pickerFile.type = "image/png"
    /\ formData = [name |-> ValidName, email |-> ValidEmail,
                   jobDescription |-> ValidJobDescription, cv |-> ValidCv]
    /\ errors["cv"] = "Only PDF files are allowed"
    /\ FormRendered

====
